---- MODULE Spec2Model ----
(***************************************************************************)
(* State-machine model of singularity_scan.py: a streaming scanner that    *)
(* groups vectors ("glyphs") into exact clusters (by a digest of the       *)
(* rounded vector) and near-clone pairs (cosine similarity inside          *)
(* random-projection buckets).                                             *)
(*                                                                         *)
(* Modelling conventions                                                   *)
(*  - A Python float is a record [k, n]: k = "fin" (the integer n, +0.0    *)
(*    for n = 0), "nz" (-0.0), "nan", "inf" (n = 1 or -1).  A JSON entry   *)
(*    that float() cannot convert is the record with k = "str".            *)
(*  - Text (the result of format()) is a sequence of one-character         *)
(*    strings.  sha256 is modelled as collision-free: the digest of a byte *)
(*    string is the byte string itself.                                    *)
(*  - A dict is a sequence of [key, items] records in insertion order,     *)
(*    which is the order Python iterates it in.                            *)
(*  - None is encoded as NoneId for the id field and DimsNone for dims.    *)
(*  - Lines 108 and 130 of the source spell their f-strings with escaped   *)
(*    quotes (f\"...\"), which Python does not parse; the model reads them  *)
(*    as the f-strings they spell, i.e. as the program that runs once the  *)
(*    two escapes are removed.                                             *)
(*  - exit_code is the exit status of the process (-1 while it runs) and   *)
(*    usage_on the stream that received the usage message.                 *)
(*  - Spec runs the program on every small input; SpecCanon, SpecOrder and *)
(*    SpecNear run parts of it, or all of it, on inputs chosen for signed  *)
(*    zeros, for two orders of one input, and for five-entry vectors at    *)
(*    the similarity threshold, at ties of the signature and at zero.      *)
(***************************************************************************)
EXTENDS Integers, Sequences, FiniteSets, TLC

\* ---------------------------------------------------------------- bounds
MaxDim == 1
MaxRecs == 3
MaxPaths == 2

\* ------------------------------------------------------ program constants
N_PROJ == 12
NEAR_THRESH_NUM == 9995
NEAR_THRESH_DEN == 10000

NoneId == "<None>"
DimsNone == -1

\* ---------------------------------------------------------------- floats
F(n) == [k |-> "fin", n |-> n]
NegZero == [k |-> "nz", n |-> 0]
NaN == [k |-> "nan", n |-> 0]
Inf(s) == [k |-> "inf", n |-> s]
BadEntry == [k |-> "str", n |-> 0]

IsFinite(x) == x.k \in {"fin", "nz"}

\* x == y on Python floats (IEEE): nan differs from everything, -0.0 == 0.0
FloatEq(x, y) ==
    /\ x.k # "nan" /\ y.k # "nan"
    /\ IF IsFinite(x) /\ IsFinite(y) THEN x.n = y.n
       ELSE x.k = y.k /\ x.n = y.n

\* x * y
FMul(x, y) ==
    IF x.k = "nan" \/ y.k = "nan" THEN NaN
    ELSE IF x.k = "inf" \/ y.k = "inf"
         THEN IF x.n = 0 \/ y.n = 0 THEN NaN
              ELSE Inf(IF (x.n > 0) = (y.n > 0) THEN 1 ELSE -1)
    ELSE F(x.n * y.n)

\* x + y (the sign of a zero sum is not tracked: no comparison reads it)
FAdd(x, y) ==
    IF x.k = "nan" \/ y.k = "nan" THEN NaN
    ELSE IF x.k = "inf" /\ y.k = "inf"
         THEN IF x.n = y.n THEN x ELSE NaN
    ELSE IF x.k = "inf" THEN x
    ELSE IF y.k = "inf" THEN y
    ELSE F(x.n + y.n)

\* float(x) of a JSON entry; raises on an entry that is not convertible
FloatRaises(x) == x.k = "str"

\* -------------------------------------------------------- round_vec, hash
DigitChar == <<"0", "1", "2", "3", "4", "5", "6", "7", "8", "9">>

RECURSIVE NatText(_)
NatText(n) ==
    IF n < 10 THEN <<DigitChar[n + 1]>>
    ELSE NatText(n \div 10) \o <<DigitChar[(n % 10) + 1]>>

\* "{:.17g}".format(x) for the floats of the model (integers below 10^17
\* print without exponent or fraction)
Fmt17g(x) ==
    CASE x.k = "nan" -> <<"n", "a", "n">>
      [] x.k = "inf" -> IF x.n > 0 THEN <<"i", "n", "f">>
                        ELSE <<"-", "i", "n", "f">>
      [] x.k = "nz" -> <<"-", "0">>
      [] OTHER -> IF x.n < 0 THEN <<"-">> \o NatText(-x.n) ELSE NatText(x.n)

DigitVal(c) == (CHOOSE d \in 1..10 : DigitChar[d] = c) - 1

RECURSIVE ParseNat(_, _)
ParseNat(t, acc) ==
    IF t = <<>> THEN acc ELSE ParseNat(Tail(t), 10 * acc + DigitVal(Head(t)))

\* float(text)
ParseFloat(t) ==
    IF t = <<"n", "a", "n">> THEN NaN
    ELSE IF t = <<"i", "n", "f">> THEN Inf(1)
    ELSE IF t = <<"-", "i", "n", "f">> THEN Inf(-1)
    ELSE IF Head(t) = "-"
         THEN LET m == ParseNat(Tail(t), 0) IN IF m = 0 THEN NegZero ELSE F(-m)
    ELSE F(ParseNat(t, 0))

round_vec(v) == [i \in 1..Len(v) |-> ParseFloat(Fmt17g(v[i]))]

RECURSIVE hash_vec(_)
hash_vec(v) ==
    IF v = <<>> THEN <<>>
    ELSE Fmt17g(Head(v)) \o <<",">> \o hash_vec(Tail(v))

\* ------------------------------------------------------- dot, norm, cos
RECURSIVE dot(_, _)
dot(a, b) ==
    IF a = <<>> \/ b = <<>> THEN F(0)
    ELSE FAdd(FMul(Head(a), Head(b)), dot(Tail(a), Tail(b)))

\* norm(v)^2 without the "or 1.0" of line 28
norm2_NoFloor(v) == dot(v, v)

\* norm(v)^2, with the "or 1.0" floor of a zero norm
norm2(v) ==
    LET s == dot(v, v) IN IF s.k = "fin" /\ s.n = 0 THEN F(1) ELSE s

\* dot(a,b) / (norm(a)*norm(b)) raises ZeroDivisionError: the product of the
\* norms is 0.0 (a nan or inf norm makes the product nan or inf, not 0.0)
cos_raises(a, b) ==
    LET na == norm2(a)
        nb == norm2(b)
    IN  na.k = "fin" /\ nb.k = "fin" /\ (na.n = 0 \/ nb.n = 0)

RECURSIVE FracGe(_, _, _, _)
\* p1/q1 >= p2/q2 for naturals with q1, q2 > 0, by the continued-fraction
\* expansion of both sides (no product is formed, so nothing overflows)
FracGe(p1, q1, p2, q2) ==
    LET i1 == p1 \div q1
        i2 == p2 \div q2
        r1 == p1 % q1
        r2 == p2 % q2
    IN  IF i1 # i2 THEN i1 > i2
        ELSE IF r2 = 0 THEN TRUE
        ELSE IF r1 = 0 THEN FALSE
        ELSE FracGe(q2, r2, q1, r1)

\* cos(a, b) > NEAR_THRESH in place of the >= of line 128
cos_gt_thresh(a, b) ==
    LET d == dot(a, b)
        na == norm2(a)
        nb == norm2(b)
    IN  /\ d.k = "fin" /\ na.k = "fin" /\ nb.k = "fin"
        /\ d.n >= 0
        /\ ~FracGe(NEAR_THRESH_NUM * NEAR_THRESH_NUM,
                   NEAR_THRESH_DEN * NEAR_THRESH_DEN, d.n * d.n, na.n * nb.n)

\* cos(a, b) >= NEAR_THRESH, decided exactly: for finite operands
\* d / (|a| |b|) >= p/q  iff  d >= 0 and d^2 / (|a|^2 |b|^2) >= p^2 / q^2 ;
\* a nan or inf operand makes the quotient nan or 0, and the test false.
\* The double computation of lines 27-29 gives the same answer when both
\* norms are exact doubles (the quotient is then correctly rounded, and
\* 0.9995 is the double nearest to 1999/2000) or when the quotient is
\* further than a few ulps from the threshold; every pair of vectors of
\* the specifications below is of one of the two kinds.
cos_ge_thresh(a, b) ==
    LET d == dot(a, b)
        na == norm2(a)
        nb == norm2(b)
    IN  /\ d.k = "fin" /\ na.k = "fin" /\ nb.k = "fin"
        /\ d.n >= 0
        /\ FracGe(d.n * d.n, na.n * nb.n,
                  NEAR_THRESH_NUM * NEAR_THRESH_NUM,
                  NEAR_THRESH_DEN * NEAR_THRESH_DEN)

\* ------------------------------------------- gen_projections, signature
\* The first draws of random.Random(47): +1 where rng.random() < 0.5, else -1
Draws ==
    << 1,  1,  1,  1, -1,  1,  1,  1,  1,  1,  1, -1,
       1, -1, -1, -1, -1,  1, -1,  1, -1,  1,  1, -1,
      -1, -1, -1,  1, -1, -1,  1,  1,  1,  1, -1,  1,
      -1, -1, -1, -1,  1, -1, -1, -1, -1,  1, -1,  1,
      -1,  1, -1,  1,  1, -1,  1, -1, -1, -1, -1,  1 >>

\* n vectors of dim entries, drawn in sequence from one seeded generator
gen_projections(dim) ==
    [k \in 1..N_PROJ |-> [i \in 1..dim |-> F(Draws[(k - 1) * dim + i])]]

\* "s > 0" in place of the "s >= 0" of line 46
FGe0_Strict(s) == s.k # "nan" /\ s.n > 0

\* s >= 0 on a float
FGe0(s) == s.k # "nan" /\ s.n >= 0

RECURSIVE ProjSum(_, _, _)
\* s = 0.0; for xi, ri in zip(v, r): s += xi*ri
ProjSum(v, r, s) ==
    IF v = <<>> \/ r = <<>> THEN s
    ELSE ProjSum(Tail(v), Tail(r), FAdd(s, FMul(Head(v), Head(r))))

sign_signature(v, R) ==
    [k \in 1..Len(R) |-> IF FGe0(ProjSum(v, R[k], F(0))) THEN 1 ELSE 0]

\* ------------------------------------------------------------ candidates
Ids == {NoneId, "", "a", "b"}
JInt(n) == [k |-> "int", n |-> n]
JsonVals == {JInt(1), NaN, BadEntry}
NotAList == [islist |-> FALSE, items |-> <<>>]
JList(s) == [islist |-> TRUE, items |-> s]
Vecs == UNION {[1..d -> JsonVals] : d \in 0..MaxDim}
\* the parsed JSON objects, by what g.get("id") and g.get("vec") return
Cands == [obj : {TRUE}, id : Ids, vec : {NotAList} \cup {JList(s) : s \in Vecs}]
\* a parsed JSON value that is no object (a number, a string, a list, null)
NotAnObject == [obj |-> FALSE, id |-> NoneId, vec |-> NotAList]

\* float(x)
ToFloat(x) == IF x.k = "int" THEN F(x.n) ELSE x

\* not gid
Falsy(gid) == gid = NoneId \/ gid = ""

\* ------------------------------------------------------------------ dicts
HasKey(d, key) == \E i \in 1..Len(d) : d[i].key = key
KeyPos(d, key) == CHOOSE i \in 1..Len(d) : d[i].key = key

\* d.setdefault(key, []).insert(0, x)
SetDefaultAppend_Prepend(d, key, x) ==
    IF HasKey(d, key)
    THEN [d EXCEPT ![KeyPos(d, key)].items = <<x>> \o @]
    ELSE Append(d, [key |-> key, items |-> <<x>>])

\* d.setdefault(key, []).append(x)
SetDefaultAppend(d, key, x) ==
    IF HasKey(d, key)
    THEN [d EXCEPT ![KeyPos(d, key)].items = Append(@, x)]
    ELSE Append(d, [key |-> key, items |-> <<x>>])

\* ------------------------------------------------------ one loop iteration
\* Accept with every record filed under one bucket key
Accept_OneBucket(e, gid, src, items) ==
    LET v_raw == [i \in 1..Len(items) |-> ToFloat(items[i])]
        v_r == round_vec(v_raw)
        h == hash_vec(v_r)
    IN  [e EXCEPT
           !.exact_index = SetDefaultAppend(@, h, <<gid, src>>),
           !.sig_buckets = SetDefaultAppend(@, <<>>,
               [gid |-> gid, src |-> src, v_r |-> v_r, v_raw |-> v_raw]),
           !.total = @ + 1,
           !.branch = "accepted"]

\* Accept with a basis drawn anew for each record: the generator goes on
\* from where the records before left it
Accept_FreshBasis(e, gid, src, items) ==
    LET v_raw == [i \in 1..Len(items) |-> ToFloat(items[i])]
        v_r == round_vec(v_raw)
        h == hash_vec(v_r)
        fresh == [k \in 1..N_PROJ |-> [i \in 1..e.dims |->
                    F(Draws[(((k - 1) * e.dims + i - 1 + e.total) % Len(Draws)) + 1])]]
        sig == sign_signature(v_raw, fresh)
    IN  [e EXCEPT
           !.exact_index = SetDefaultAppend(@, h, <<gid, src>>),
           !.sig_buckets = SetDefaultAppend(@, sig,
               [gid |-> gid, src |-> src, v_r |-> v_r, v_raw |-> v_raw]),
           !.total = @ + 1,
           !.branch = "accepted"]

\* Accept without line 99
Accept_NoCount(e, gid, src, items) ==
    LET v_raw == [i \in 1..Len(items) |-> ToFloat(items[i])]
        v_r == round_vec(v_raw)
        h == hash_vec(v_r)
        sig == sign_signature(v_raw, e.R)
    IN  [e EXCEPT
           !.exact_index = SetDefaultAppend(@, h, <<gid, src>>),
           !.sig_buckets = SetDefaultAppend(@, sig,
               [gid |-> gid, src |-> src, v_r |-> v_r, v_raw |-> v_raw]),
           !.branch = "accepted"]

\* The body of the ingestion loop for record g of source src, on the engine
\* state e = [exact_index, sig_buckets, dims, R, total, branch]
Accept(e, gid, src, items) ==
    LET v_raw == [i \in 1..Len(items) |-> ToFloat(items[i])]
        v_r == round_vec(v_raw)
        h == hash_vec(v_r)
        sig == sign_signature(v_raw, e.R)
    IN  [e EXCEPT
           !.exact_index = SetDefaultAppend(@, h, <<gid, src>>),
           !.sig_buckets = SetDefaultAppend(@, sig,
               [gid |-> gid, src |-> src, v_r |-> v_r, v_raw |-> v_raw]),
           !.total = @ + 1,
           !.branch = "accepted"]

\* dims is None: dims = len(v); R = gen_projections(dims)
EstablishDims(e, items) ==
    IF e.dims = DimsNone
    THEN [e EXCEPT !.dims = Len(items), !.R = gen_projections(Len(items))]
    ELSE e

\* IngestOne without the length test of lines 81-83
IngestOne_NoDimsCheck(e, g, src) ==
    IF ~g.obj
    THEN [e EXCEPT !.branch = "raise"]
    ELSE IF Falsy(g.id) \/ ~g.vec.islist
    THEN [e EXCEPT !.branch = "skip_id_vec"]
    ELSE LET e1 == EstablishDims(e, g.vec.items) IN
         IF \E i \in 1..Len(g.vec.items) : FloatRaises(g.vec.items[i])
         THEN [e1 EXCEPT !.branch = "skip_float"]
         ELSE Accept(e1, g.id, src, g.vec.items)

\* IngestOne with a new basis for a vector of another length, in place of
\* the "continue" of lines 81-83
IngestOne_Reestablish(e, g, src) ==
    IF ~g.obj
    THEN [e EXCEPT !.branch = "raise"]
    ELSE IF Falsy(g.id) \/ ~g.vec.islist
    THEN [e EXCEPT !.branch = "skip_id_vec"]
    ELSE LET e1 == IF e.dims = DimsNone \/ Len(g.vec.items) # e.dims
                   THEN [e EXCEPT !.dims = Len(g.vec.items),
                                  !.R = gen_projections(Len(g.vec.items))]
                   ELSE e
         IN  IF \E i \in 1..Len(g.vec.items) : FloatRaises(g.vec.items[i])
             THEN [e1 EXCEPT !.branch = "skip_float"]
             ELSE Accept(e1, g.id, src, g.vec.items)

\* IngestOne with "if not isinstance(v, list)" in place of line 76
IngestOne_NoIdCheck(e, g, src) ==
    IF ~g.obj
    THEN [e EXCEPT !.branch = "raise"]
    ELSE IF ~g.vec.islist
    THEN [e EXCEPT !.branch = "skip_id_vec"]
    ELSE IF e.dims # DimsNone /\ Len(g.vec.items) # e.dims
    THEN [e EXCEPT !.branch = "skip_dims"]
    ELSE LET e1 == EstablishDims(e, g.vec.items) IN
         IF \E i \in 1..Len(g.vec.items) : FloatRaises(g.vec.items[i])
         THEN [e1 EXCEPT !.branch = "skip_float"]
         ELSE Accept(e1, g.id, src, g.vec.items)

IngestOne(e, g, src) ==
    IF ~g.obj
    THEN [e EXCEPT !.branch = "raise"]
    ELSE IF Falsy(g.id) \/ ~g.vec.islist
    THEN [e EXCEPT !.branch = "skip_id_vec"]
    ELSE IF e.dims # DimsNone /\ Len(g.vec.items) # e.dims
    THEN [e EXCEPT !.branch = "skip_dims"]
    ELSE LET e1 == EstablishDims(e, g.vec.items) IN
         IF \E i \in 1..Len(g.vec.items) : FloatRaises(g.vec.items[i])
         THEN [e1 EXCEPT !.branch = "skip_float"]
         ELSE Accept(e1, g.id, src, g.vec.items)

EmptyEngine ==
    [exact_index |-> <<>>, sig_buckets |-> <<>>, dims |-> DimsNone,
     R |-> <<>>, total |-> 0, branch |-> "none"]

\* ---------------------------------------------------------------- reports
RECURSIVE ExactClusters_All(_)
\* ExactClusters with "len(lst) > 0" in place of line 106
ExactClusters_All(idx) ==
    IF idx = <<>> THEN <<>>
    ELSE (IF Len(Head(idx).items) > 0 THEN <<Head(idx).items>> ELSE <<>>)
         \o ExactClusters_All(Tail(idx))

RECURSIVE ExactClusters(_)
\* the lines printed for the groups with more than one member, in dict order
ExactClusters(idx) ==
    IF idx = <<>> THEN <<>>
    ELSE (IF Len(Head(idx).items) > 1 THEN <<Head(idx).items>> ELSE <<>>)
         \o ExactClusters(Tail(idx))

RECURSIVE ScanFrom_AllJ(_, _, _, _)
\* ScanFrom with "for j in range(len(entries))" in place of line 122
ScanFrom_AllJ(entries, i, j, st) ==
    IF i > Len(entries) \/ st.fault THEN st
    ELSE IF j > Len(entries) THEN ScanFrom_AllJ(entries, i + 1, 1, st)
    ELSE LET key == <<entries[i].gid, entries[j].gid>> IN
         IF key \in st.seen THEN ScanFrom_AllJ(entries, i, j + 1, st)
         ELSE IF cos_raises(entries[i].v_raw, entries[j].v_raw)
         THEN [st EXCEPT !.fault = TRUE]
         ELSE ScanFrom_AllJ(entries, i, j + 1,
                [seen |-> st.seen \cup {key},
                 out |-> IF cos_ge_thresh(entries[i].v_raw, entries[j].v_raw)
                         THEN Append(st.out,
                                <<<<entries[i].gid, entries[i].src>>,
                                  <<entries[j].gid, entries[j].src>>>>)
                         ELSE st.out,
                 fault |-> FALSE])

RECURSIVE ScanFrom(_, _, _, _)
\* the double loop over one bucket, from pair (i, j) on; st = [seen, out,
\* fault]: seen_pairs, the lines printed, and whether cos raised (the
\* exception ends both loops)
ScanFrom(entries, i, j, st) ==
    IF i > Len(entries) \/ st.fault THEN st
    ELSE IF j > Len(entries) THEN ScanFrom(entries, i + 1, i + 2, st)
    ELSE LET key == <<entries[i].gid, entries[j].gid>> IN
         IF key \in st.seen THEN ScanFrom(entries, i, j + 1, st)
         ELSE IF cos_raises(entries[i].v_raw, entries[j].v_raw)
         THEN [st EXCEPT !.fault = TRUE]
         ELSE ScanFrom(entries, i, j + 1,
                [seen |-> st.seen \cup {key},
                 out |-> IF cos_ge_thresh(entries[i].v_raw, entries[j].v_raw)
                         THEN Append(st.out,
                                <<<<entries[i].gid, entries[i].src>>,
                                  <<entries[j].gid, entries[j].src>>>>)
                         ELSE st.out,
                 fault |-> FALSE])

ScanBucketEntries(entries, st) ==
    IF Len(entries) < 2 THEN st ELSE ScanFrom(entries, 1, 2, st)

\* ------------------------------------------------------------------ state
VARIABLES
    pc,           \* "start", "usage_exit", "ingest", "report_exact", "scan",
                  \* "done", "crashed" (an exception left main)
    npaths,       \* len(sys.argv) - 1; path i has basename i
    fi,           \* index of the path being streamed (for p in paths)
    nread,        \* records yielded so far by stream_glyphs, over all paths
    exact_index,  \* hash -> [(id, file)]
    sig_buckets,  \* signature -> [(id, file, vec_rounded, vec_raw)]
    dims, R, total,
    branch,       \* exit the last loop iteration took
    accepted,     \* history: the candidates that reached line 99, in order
    summary,      \* <<total, len(paths)>> once "Scanned ..." is printed
    out_exact,    \* the cluster lines printed, in order
    none_exact,   \* "none" printed in the exact section
    bi,           \* position of the bucket loop in sig_buckets
    seen_pairs,
    out_near,     \* the pair lines printed, in order (found_near = its length)
    none_near,    \* "none" printed in the near-clone section
    usage_on,     \* the stream the usage message was printed on, or "none"
    exit_code,    \* exit status of the process, -1 while it runs
    hv, hres,     \* two vectors and their canonical keys and index (SpecCanon)
    ord, ores     \* a record stream and the results of two orders (SpecOrder)

vars == <<pc, npaths, fi, nread, exact_index, sig_buckets, dims, R, total,
          branch, accepted, summary, out_exact, none_exact, bi, seen_pairs,
          out_near, none_near, usage_on, exit_code, hv, hres, ord, ores>>

engine == [exact_index |-> exact_index, sig_buckets |-> sig_buckets,
           dims |-> dims, R |-> R, total |-> total, branch |-> branch]

SetEngine(e) ==
    /\ exact_index' = e.exact_index
    /\ sig_buckets' = e.sig_buckets
    /\ dims' = e.dims
    /\ R' = e.R
    /\ total' = e.total
    /\ branch' = e.branch

reportVars == <<summary, out_exact, none_exact, bi, seen_pairs, out_near,
                none_near>>
pureVars == <<hv, hres, ord, ores>>
exitVars == <<usage_on, exit_code>>
engineVars == <<exact_index, sig_buckets, dims, R, total, branch>>
idleVars == <<engineVars, accepted, nread>>

Init ==
    /\ pc = "start"
    /\ npaths \in 0..MaxPaths
    /\ fi = 0
    /\ nread = 0
    /\ exact_index = <<>>
    /\ sig_buckets = <<>>
    /\ dims = DimsNone
    /\ R = <<>>
    /\ total = 0
    /\ branch = "none"
    /\ accepted = <<>>
    /\ summary = <<>>
    /\ out_exact = <<>>
    /\ none_exact = FALSE
    /\ bi = 0
    /\ seen_pairs = {}
    /\ out_near = <<>>
    /\ none_near = FALSE
    /\ usage_on = "none"
    /\ exit_code = -1
    /\ hv = <<>>
    /\ hres = <<>>
    /\ ord = <<>>
    /\ ores = <<>>

\* if len(sys.argv) < 2: print("Usage: ...") writes to sys.stdout (print
\* has no file argument); sys.exit(1) ends the process with status 1
Usage ==
    /\ pc = "start"
    /\ npaths = 0
    /\ usage_on' = "stdout"
    /\ exit_code' = 1
    /\ pc' = "usage_exit"
    /\ UNCHANGED <<npaths, fi, idleVars, reportVars,
                   pureVars>>

\* main(sys.argv[1:]): the locals are initialised, the path loop starts
EnterMain ==
    /\ pc = "start"
    /\ npaths >= 1
    /\ pc' = "ingest"
    /\ fi' = 1
    /\ SetEngine(EmptyEngine)
    /\ UNCHANGED <<npaths, accepted, nread, reportVars,
                   pureVars, exitVars>>

\* stream_glyphs yields (g, path) and the loop body runs on it; g.get on a
\* value that is no object raises, and nothing catches it
IngestRecord ==
    /\ pc = "ingest"
    /\ fi <= npaths
    /\ nread < MaxRecs
    /\ nread' = nread + 1
    /\ \E g \in Cands \cup {NotAnObject} :
          LET e == IngestOne(engine, g, fi) IN
          /\ SetEngine(e)
          /\ accepted' = IF e.branch = "accepted"
                          THEN Append(accepted, [g |-> g, src |-> fi])
                          ELSE accepted
          /\ pc' = IF e.branch = "raise" THEN "crashed" ELSE pc
          /\ exit_code' = IF e.branch = "raise" THEN 1 ELSE exit_code
    /\ UNCHANGED <<npaths, fi, reportVars,
                   pureVars, usage_on>>

\* stream_glyphs(p) is exhausted: the next path
EndOfFile ==
    /\ pc = "ingest"
    /\ fi <= npaths
    /\ fi' = fi + 1
    /\ UNCHANGED <<pc, npaths, idleVars, reportVars,
                   pureVars, exitVars>>

\* open(), json.load() or json.loads() raises inside stream_glyphs: nothing
\* catches it, main is left and the process ends with status 1
StreamRaises ==
    /\ pc = "ingest"
    /\ fi <= npaths
    /\ pc' = "crashed"
    /\ exit_code' = 1
    /\ UNCHANGED <<npaths, fi, idleVars, reportVars,
                   pureVars, usage_on>>

\* FinishIngest without waiting for the path loop to end
FinishIngest_Early ==
    /\ pc = "ingest"
    /\ summary' = <<total, npaths>>
    /\ pc' = "report_exact"
    /\ UNCHANGED <<npaths, fi, idleVars, out_exact, none_exact, bi,
                   seen_pairs, out_near, none_near,
                   pureVars, exitVars>>

\* the path loop is over: print("Scanned ...")
FinishIngest ==
    /\ pc = "ingest"
    /\ fi > npaths
    /\ summary' = <<total, npaths>>
    /\ pc' = "report_exact"
    /\ UNCHANGED <<npaths, fi, idleVars, out_exact, none_exact, bi,
                   seen_pairs, out_near, none_near,
                   pureVars, exitVars>>

\* the exact-cluster section, then the header of the near-clone section
ReportExact ==
    /\ pc = "report_exact"
    /\ out_exact' = ExactClusters(exact_index)
    /\ none_exact' = (Len(ExactClusters(exact_index)) = 0)
    /\ seen_pairs' = {}
    /\ out_near' = <<>>
    /\ bi' = 1
    /\ pc' = "scan"
    /\ UNCHANGED <<npaths, fi, idleVars, summary, none_near,
                   pureVars, exitVars>>

\* one iteration of: for sig, entries in sig_buckets.items(); an exception
\* raised by cos leaves main and the process ends with status 1
ScanBucket ==
    /\ pc = "scan"
    /\ bi <= Len(sig_buckets)
    /\ LET st == ScanBucketEntries(sig_buckets[bi].items,
                     [seen |-> seen_pairs, out |-> out_near, fault |-> FALSE])
       IN  /\ seen_pairs' = st.seen
           /\ out_near' = st.out
           /\ pc' = IF st.fault THEN "crashed" ELSE pc
           /\ exit_code' = IF st.fault THEN 1 ELSE exit_code
           /\ bi' = IF st.fault THEN bi ELSE bi + 1
    /\ UNCHANGED <<npaths, fi, idleVars, summary, out_exact,
                   none_exact, none_near,
                   pureVars, usage_on>>

\* the bucket loop is over: if found_near == 0: print("none"); main returns
\* and the process ends with status 0
FinishScan ==
    /\ pc = "scan"
    /\ bi > Len(sig_buckets)
    /\ none_near' = (Len(out_near) = 0)
    /\ pc' = "done"
    /\ exit_code' = 0
    /\ UNCHANGED <<npaths, fi, idleVars, summary, out_exact,
                   none_exact, bi, seen_pairs, out_near,
                   pureVars, usage_on>>

Next ==
    \/ Usage
    \/ EnterMain
    \/ IngestRecord
    \/ EndOfFile
    \/ StreamRaises
    \/ FinishIngest
    \/ ReportExact
    \/ ScanBucket
    \/ FinishScan

Spec == Init /\ [][Next]_vars

\* ------------------------------------------------- canonical keys (pure)
MaxCanonDim == 2
CanonVals == {JInt(0), NegZero, JInt(1), NaN, Inf(1)}
CanonVecs == UNION {[1..d -> CanonVals] : d \in 1..MaxCanonDim}

InitCanon ==
    /\ pc = "canon"
    /\ hv \in CanonVecs \X CanonVecs
    /\ npaths = 1 /\ fi = 1 /\ nread = 0
    /\ exact_index = <<>> /\ sig_buckets = <<>> /\ dims = DimsNone
    /\ R = <<>> /\ total = 0 /\ branch = "none" /\ accepted = <<>>
    /\ summary = <<>> /\ out_exact = <<>> /\ none_exact = FALSE /\ bi = 0
    /\ seen_pairs = {} /\ out_near = <<>> /\ none_near = FALSE
    /\ usage_on = "none" /\ exit_code = -1
    /\ hres = <<>> /\ ord = <<>> /\ ores = <<>>

Obj(gid, items) == [obj |-> TRUE, id |-> gid, vec |-> JList(items)]

\* records "a" and "b" with vectors hv[1] and hv[2] go through the loop body
\* of a fresh engine; hres keeps their CanonicalKeys and the Exact-Match Index
CanonInsert ==
    /\ pc = "canon"
    /\ LET u == [i \in 1..Len(hv[1]) |-> ToFloat(hv[1][i])]
           v == [i \in 1..Len(hv[2]) |-> ToFloat(hv[2][i])]
           e1 == IngestOne(EmptyEngine, Obj("a", hv[1]), 1)
           e2 == IngestOne(e1, Obj("b", hv[2]), 1)
       IN  hres' = [ku |-> round_vec(u), kv |-> round_vec(v),
                    hu |-> hash_vec(round_vec(u)), hv |-> hash_vec(round_vec(v)),
                    total |-> e2.total, idx |-> e2.exact_index]
    /\ pc' = "canon_done"
    /\ UNCHANGED <<npaths, fi, idleVars, reportVars, exitVars, hv, ord, ores>>

SpecCanon == InitCanon /\ [][CanonInsert]_vars

\* ---------------------------------------------------- two orders (pure)
RECURSIVE IngestAll(_, _)
\* the ingestion loop over a whole stream of (g, src)
IngestAll(e, stream) ==
    IF stream = <<>> THEN e
    ELSE IngestAll(IngestOne(e, Head(stream).g, Head(stream).src), Tail(stream))

RECURSIVE ScanAll(_, _)
\* the bucket loop over the whole Bucket Index
ScanAll(buckets, st) ==
    IF buckets = <<>> \/ st.fault THEN st
    ELSE ScanAll(Tail(buckets), ScanBucketEntries(Head(buckets).items, st))

\* the report of a run, as sets of member sets
RunResult(stream) ==
    LET e == IngestAll(EmptyEngine, stream)
        cl == ExactClusters(e.exact_index)
        near == ScanAll(e.sig_buckets,
                       [seen |-> {}, out |-> <<>>, fault |-> FALSE]).out
    IN  [exact |-> {{cl[k][i] : i \in 1..Len(cl[k])} : k \in 1..Len(cl)},
         near |-> {{near[k][1], near[k][2]} : k \in 1..Len(near)}]

\* the records of the two runs: a named vector of MaxDim entries each, so
\* that no order changes which records have the established length
OrderCands ==
    {g \in Cands : ~Falsy(g.id) /\ g.vec.islist /\ Len(g.vec.items) = MaxDim}

\* the records of one file are contiguous in the stream
FileGrouped(stream) ==
    \A i, j, k \in 1..Len(stream) :
        (i < j /\ j < k /\ stream[i].src = stream[k].src)
            => stream[j].src = stream[i].src

Perms(n) == {f \in [1..n -> 1..n] : \A i, j \in 1..n : f[i] = f[j] => i = j}

InitOrder ==
    /\ pc = "order"
    /\ ord = <<>>
    /\ npaths = MaxPaths /\ fi = 1 /\ nread = 0
    /\ exact_index = <<>> /\ sig_buckets = <<>> /\ dims = DimsNone
    /\ R = <<>> /\ total = 0 /\ branch = "none" /\ accepted = <<>>
    /\ summary = <<>> /\ out_exact = <<>> /\ none_exact = FALSE /\ bi = 0
    /\ seen_pairs = {} /\ out_near = <<>> /\ none_near = FALSE
    /\ usage_on = "none" /\ exit_code = -1
    /\ hv = <<>> /\ hres = <<>> /\ ores = <<>>

\* one more record of the input, in the current file or a later one; no
\* two records of the input share both id and file
OrderAppend ==
    /\ pc = "order"
    /\ Len(ord) < MaxRecs
    /\ \E g \in OrderCands, src \in 1..MaxPaths :
          /\ IF ord = <<>> THEN TRUE ELSE src >= ord[Len(ord)].src
          /\ \A i \in 1..Len(ord) : <<ord[i].g.id, ord[i].src>> # <<g.id, src>>
          /\ ord' = Append(ord, [g |-> g, src |-> src])
    /\ UNCHANGED <<pc, npaths, fi, idleVars, reportVars, exitVars, hv, hres,
                   ores>>

\* the same records are run in the order given and in another order of the
\* files and of the records in them
OrderRun ==
    /\ pc = "order"
    /\ \E f \in Perms(Len(ord)) :
          LET other == [i \in 1..Len(ord) |-> ord[f[i]]] IN
          /\ FileGrouped(other)
          /\ ores' = [other |-> other, a |-> RunResult(ord),
                      b |-> RunResult(other)]
    /\ pc' = "order_done"
    /\ UNCHANGED <<npaths, fi, idleVars, reportVars, exitVars, hv, hres, ord>>

SpecOrder == InitOrder /\ [][OrderAppend \/ OrderRun]_vars

\* ------------------------------------ one file of five-entry vectors
MaxNearRecs == 3

IntVec(t) == [i \in 1..Len(t) |-> JInt(t[i])]

\* |PA| = 40, |PB| = 50, |PC| = 49; PA.PB = 1999, so cos(PA, PB) is
\* 1999/2000; cos(PA, PC) = 1959/1960 is below it and cos(PB, PC) = 2449/2450
\* above.  U and W have cosine 4999/5001 and differ in their signatures.
\* ZV is the zero vector; V is orthogonal to six rows of the basis and
\* shares the signature of ZV.
PA == IntVec(<<1, 2, 5, 7, 39>>)
PB == IntVec(<<1, 3, 5, 8, 49>>)
PC == IntVec(<<2, 2, 5, 8, 48>>)
U == IntVec(<<50, 50, 0, 0, 1>>)
W == IntVec(<<50, 50, 0, 0, -1>>)
ZV == IntVec(<<0, 0, 0, 0, 0>>)
V == IntVec(<<0, 0, 1, -1, 0>>)

\* the records of the file: every id names one vector
NearCands ==
    {Obj("pa", PA), Obj("qa", PA), Obj("pb", PB), Obj("pc", PC), Obj("u", U),
     Obj("w", W), Obj("z", ZV), Obj("y", ZV), Obj("v", V)}

InitNear ==
    /\ pc = "start"
    /\ npaths = 1 /\ fi = 0 /\ nread = 0
    /\ exact_index = <<>> /\ sig_buckets = <<>> /\ dims = DimsNone
    /\ R = <<>> /\ total = 0 /\ branch = "none" /\ accepted = <<>>
    /\ summary = <<>> /\ out_exact = <<>> /\ none_exact = FALSE /\ bi = 0
    /\ seen_pairs = {} /\ out_near = <<>> /\ none_near = FALSE
    /\ usage_on = "none" /\ exit_code = -1
    /\ hv = <<>> /\ hres = <<>> /\ ord = <<>> /\ ores = <<>>

\* stream_glyphs yields one of the records and the loop body runs on it
IngestNear ==
    /\ pc = "ingest"
    /\ fi <= npaths
    /\ nread < MaxNearRecs
    /\ nread' = nread + 1
    /\ \E g \in NearCands :
          LET e == IngestOne(engine, g, fi) IN
          /\ SetEngine(e)
          /\ accepted' = IF e.branch = "accepted"
                          THEN Append(accepted, [g |-> g, src |-> fi])
                          ELSE accepted
          /\ pc' = IF e.branch = "raise" THEN "crashed" ELSE pc
          /\ exit_code' = IF e.branch = "raise" THEN 1 ELSE exit_code
    /\ UNCHANGED <<npaths, fi, reportVars,
                   pureVars, usage_on>>

NextNear ==
    \/ EnterMain
    \/ IngestNear
    \/ EndOfFile
    \/ FinishIngest
    \/ ReportExact
    \/ ScanBucket
    \/ FinishScan

SpecNear == InitNear /\ [][NextNear]_vars

\* ================================================================ claims
Range(q) == {q[i] : i \in 1..Len(q)}

\* (id, source_tag) of a bucket entry
Member(e) == <<e.gid, e.src>>

\* every entry of the Bucket Index / every member of the Exact-Match Index
BucketEntries == UNION {Range(sig_buckets[b].items) : b \in 1..Len(sig_buckets)}
ExactMembers == UNION {Range(exact_index[i].items) : i \in 1..Len(exact_index)}

\* the step is the loop body run on candidate g
IngestStepOf(g) ==
    pc = "ingest" /\ nread' = nread + 1 /\ SetEngine(IngestOne(engine, g, fi))

\* C1: once D is set, a record has been inserted and D is the vector length
\* of the first inserted record; a rejected candidate never establishes D.
C1_DimsFromFirstAccepted ==
    dims # DimsNone =>
        /\ total >= 1
        /\ Len(accepted) >= 1
        /\ dims = Len(accepted[1].g.vec.items)

\* C2: after the scan, every pair of distinct members (id, source_tag) of
\* one bucket whose cosine similarity reaches NEAR_THRESH has been emitted.
C2_ScanComplete ==
    pc = "done" =>
        \A b \in 1..Len(sig_buckets) :
            \A i, j \in 1..Len(sig_buckets[b].items) :
                LET ei == sig_buckets[b].items[i]
                    ej == sig_buckets[b].items[j]
                IN  (i < j /\ Member(ei) # Member(ej)
                       /\ cos_ge_thresh(ei.v_raw, ej.v_raw))
                    => \E k \in 1..Len(out_near) :
                          {out_near[k][1], out_near[k][2]}
                              = {Member(ei), Member(ej)}

\* C3: every record in either index has a non-empty id and a vector of
\* exactly D finite numbers (no NaN, no infinity).
C3_IndexValid ==
    /\ \A e \in BucketEntries :
          /\ ~Falsy(e.gid)
          /\ Len(e.v_raw) = dims
          /\ \A i \in 1..Len(e.v_raw) : IsFinite(e.v_raw[i])
    /\ \A m \in ExactMembers : ~Falsy(m[1])
    /\ \A i \in 1..Len(accepted) :
          \A k \in 1..Len(accepted[i].g.vec.items) :
              IsFinite(ToFloat(accepted[i].g.vec.items[k]))

\* C4: running the same records in another order of the files and of the
\* records in them gives the same set of exact clusters and the same set of
\* near-duplicate pairs.
C4_OrderIndependent ==
    pc = "order_done" => (ores.a.exact = ores.b.exact /\ ores.a.near = ores.b.near)

\* C5: a source that fails after records were ingested does not end the run
\* without a report: the exception does not leave main.
C5_InterruptionReports == ~(pc = "crashed" /\ total >= 1 /\ summary = <<>>)

Phase(p) ==
    CASE p = "start" -> "Idle"
      [] p = "ingest" -> "Ingesting"
      [] p \in {"report_exact", "scan"} -> "Reporting"
      [] p = "done" -> "Done"
      [] OTHER -> "Exit"

\* C6: the phases run Idle -> Ingesting -> Reporting -> Done and never back;
\* Reporting starts only when every path has been consumed; no index changes
\* from the start of Reporting on.
C6_PhaseProtocol ==
    [][ /\ <<Phase(pc), Phase(pc')>> \in
              {<<"Idle", "Idle">>, <<"Idle", "Ingesting">>, <<"Idle", "Exit">>,
               <<"Ingesting", "Ingesting">>, <<"Ingesting", "Reporting">>,
               <<"Ingesting", "Exit">>,
               <<"Reporting", "Reporting">>, <<"Reporting", "Done">>,
               <<"Done", "Done">>, <<"Exit", "Exit">>}
        /\ (Phase(pc) = "Ingesting" /\ Phase(pc') = "Reporting")
              => fi > npaths
        /\ Phase(pc) \in {"Reporting", "Done"}
              => UNCHANGED <<exact_index, sig_buckets, total, dims, R>>
      ]_vars

C6_Witness == pc = "done" /\ total >= 2 /\ Len(sig_buckets) >= 2

\* C7: once D is established, a candidate whose vector length differs from D
\* is dropped: a step either changes neither index and goes on ingesting, or
\* it is not the loop body run on such a candidate; and no entry of an index
\* or member of the output has a vector of another length.
C7_DimsIsolation ==
    /\ [][ \/ (UNCHANGED <<exact_index, sig_buckets, total, dims, R>>
                /\ pc' = "ingest")
           \/ \A g \in Cands :
                 ~(dims # DimsNone /\ g.vec.islist /\ Len(g.vec.items) # dims
                     /\ IngestStepOf(g)) ]_vars
    /\ [](\A e \in BucketEntries : Len(e.v_raw) = dims)
    /\ [](\A k \in 1..Len(out_near) :
              \A m \in {out_near[k][1], out_near[k][2]} :
                  \E e \in BucketEntries : Member(e) = m /\ Len(e.v_raw) = dims)
    /\ [](\A k \in 1..Len(out_exact) : Range(out_exact[k]) \subseteq ExactMembers)

C7_Witness ==
    /\ branch = "skip_dims" /\ total >= 1
    /\ \E e \in BucketEntries : Len(e.v_raw) = 1

\* a record-level defect of candidate g in the current state
Defective(g) ==
    \/ Falsy(g.id)
    \/ ~g.vec.islist
    \/ \E i \in 1..Len(g.vec.items) : FloatRaises(g.vec.items[i])
    \/ dims # DimsNone /\ Len(g.vec.items) # dims

\* C8: a candidate with a missing or empty id, a vec that is no list, an
\* entry that is not convertible or a mismatched length leaves both indices
\* and the accepted count unchanged and does not end the run (a step either
\* does so, or it is not the loop body run on a defective candidate); the
\* output holds members of the indices only.
C8_DefectsSkipped ==
    /\ [][ \/ (UNCHANGED <<exact_index, sig_buckets, total, accepted>>
                /\ pc' = "ingest")
           \/ \A g \in Cands : ~(Defective(g) /\ IngestStepOf(g)) ]_vars
    /\ [](\A k \in 1..Len(out_near) :
              {out_near[k][1], out_near[k][2]}
                  \subseteq {Member(e) : e \in BucketEntries})
    /\ [](\A k \in 1..Len(out_exact) : Range(out_exact[k]) \subseteq ExactMembers)
    /\ [](total = Len(accepted))

C8_Witness == branch = "skip_float" /\ total >= 1 /\ pc = "done"

\* t1 == t2 on Python tuples of floats
KeyEq(a, b) == Len(a) = Len(b) /\ \A i \in 1..Len(a) : FloatEq(a[i], b[i])

\* C9: two accepted records are in the same Exact-Match Index group if and
\* only if their CanonicalKeys are equal; equal CanonicalKeys give equal
\* ExactHash values (signed zero included).
C9_GroupIffKeyEq ==
    (pc = "canon_done" /\ hres.total = 2) =>
        /\ (Len(hres.idx) = 1) <=> KeyEq(hres.ku, hres.kv)
        /\ KeyEq(hres.ku, hres.kv) => hres.hu = hres.hv

\* the members of the accepted records whose digest is h, in encounter order
RECURSIVE EncounterOrder(_, _)
EncounterOrder(log, h) ==
    IF log = <<>> THEN <<>>
    ELSE LET c == Head(log)
             v == [i \in 1..Len(c.g.vec.items) |-> ToFloat(c.g.vec.items[i])]
         IN  (IF hash_vec(round_vec(v)) = h THEN <<<<c.g.id, c.src>>>> ELSE <<>>)
             \o EncounterOrder(Tail(log), h)

BigGroups == {i \in 1..Len(exact_index) : Len(exact_index[i].items) >= 2}

\* C10: the clusters reported are exactly the groups with 2 or more members,
\* each with all its members in encounter order; "none" is printed exactly
\* when no group has 2 or more members.
C10_ExactReport ==
    pc \in {"scan", "done"} =>
        /\ Len(out_exact) = Cardinality(BigGroups)
        /\ \A i \in BigGroups :
              \E k \in 1..Len(out_exact) :
                  out_exact[k] = EncounterOrder(accepted, exact_index[i].key)
        /\ \A k \in 1..Len(out_exact) :
              \E i \in BigGroups : out_exact[k] = exact_index[i].items
        /\ none_exact <=> (BigGroups = {})

C10_Witness ==
    /\ pc = "done"
    /\ Len(out_exact) = 1
    /\ Len(exact_index) = 2
    /\ Len(out_exact[1]) = 2
    /\ out_exact[1][1] # out_exact[1][2]

\* ------------------------------------------------- helpers of C11 .. C20
RECURSIVE IntDot(_, _)
\* the inner product of two vectors of integers, in exact arithmetic
IntDot(a, b) ==
    IF a = <<>> \/ b = <<>> THEN 0
    ELSE Head(a).n * Head(b).n + IntDot(Tail(a), Tail(b))

\* |v|^2, and 1 in place of 0 (the floor of the norm)
IntNorm2(v) == IF IntDot(v, v) = 0 THEN 1 ELSE IntDot(v, v)

\* the sign of cos(a, b) - NEAR_THRESH in exact arithmetic: -1, 0 or 1
SimCmp(a, b) ==
    LET d == IntDot(a, b)
        n == IntNorm2(a) * IntNorm2(b)
        p == NEAR_THRESH_NUM * NEAR_THRESH_NUM
        q == NEAR_THRESH_DEN * NEAR_THRESH_DEN
    IN  IF d < 0 THEN -1
        ELSE IF ~FracGe(d * d, n, p, q) THEN -1
        ELSE IF FracGe(p, q, d * d, n) THEN 0
        ELSE 1

IsZeroVec(v) == \A i \in 1..Len(v) : IsFinite(v[i]) /\ v[i].n = 0

\* the pairs <<bucket, i, j>> with i < j, i.e. the pairs of distinct members
\* of one bucket
ScanPairs ==
    {p \in (1..Len(sig_buckets)) \X (1..total) \X (1..total) :
        p[2] < p[3] /\ p[3] <= Len(sig_buckets[p[1]].items)}

Left(p) == sig_buckets[p[1]].items[p[2]]
Right(p) == sig_buckets[p[1]].items[p[3]]

\* q comes before p in the order of the scan
Before(q, p) ==
    \/ q[1] < p[1]
    \/ q[1] = p[1] /\ q[2] < p[2]
    \/ q[1] = p[1] /\ q[2] = p[2] /\ q[3] < p[3]

\* the pair is compared: no pair before it has its identifier pair
Compared(p) ==
    \A q \in ScanPairs :
        Before(q, p) => <<Left(q).gid, Right(q).gid>> # <<Left(p).gid, Right(p).gid>>

\* the line of the pair is in the near-duplicate section
Emitted(p) ==
    \E k \in 1..Len(out_near) : out_near[k] = <<Member(Left(p)), Member(Right(p))>>

\* the signature of v by the rule of the specification, in exact arithmetic
SpecSig(v) == [k \in 1..N_PROJ |-> IF IntDot(v, R[k]) >= 0 THEN 1 ELSE 0]

C12_SameBucketOnly ==
    /\ \A k \in 1..Len(out_near) :
          \E p \in ScanPairs :
              /\ out_near[k] = <<Member(Left(p)), Member(Right(p))>>
              /\ SpecSig(Left(p).v_raw) = SpecSig(Right(p).v_raw)
    /\ \A e1, e2 \in BucketEntries :
          SpecSig(e1.v_raw) # SpecSig(e2.v_raw) =>
              \A k \in 1..Len(out_near) :
                  out_near[k] # <<Member(e1), Member(e2)>>

C12_Witness ==
    /\ pc = "done"
    /\ Len(out_near) >= 1
    /\ \E e1, e2 \in BucketEntries :
          /\ SpecSig(e1.v_raw) # SpecSig(e2.v_raw)
          /\ SimCmp(e1.v_raw, e2.v_raw) = 1

\* C13: with no input path the process ends with a non-zero status, the
\* usage message is on standard error, and no ingestion or reporting work
\* was done.
C13_UsageError ==
    pc = "usage_exit" =>
        /\ exit_code # 0
        /\ usage_on = "stderr"
        /\ exact_index = <<>> /\ sig_buckets = <<>> /\ total = 0
        /\ dims = DimsNone /\ nread = 0
        /\ summary = <<>> /\ out_exact = <<>> /\ out_near = <<>>

RECURSIVE PairLines(_, _, _)
\* the lines of the pairs (i, j), i < j, of a bucket, in the order of the scan
PairLines(entries, i, j) ==
    IF i >= Len(entries) THEN <<>>
    ELSE IF j > Len(entries) THEN PairLines(entries, i + 1, i + 2)
    ELSE <<<<Member(entries[i]), Member(entries[j])>>>>
         \o PairLines(entries, i, j + 1)

RECURSIVE IsSubseq(_, _)
\* s is t with some elements left out
IsSubseq(s, t) ==
    IF s = <<>> THEN TRUE
    ELSE IF t = <<>> THEN FALSE
    ELSE IF Head(s) = Head(t) THEN IsSubseq(Tail(s), Tail(t))
    ELSE IsSubseq(s, Tail(t))

C15_DimsWriteOnce ==
    [][ dims # DimsNone => (dims' = dims /\ R' = R) ]_vars

C15_Witness ==
    /\ dims = 1 /\ nread = 3 /\ total = 1
    /\ branch = "skip_dims"
    /\ Len(accepted) = 1

RECURSIVE SumLens(_)
\* the number of members over all groups of an index
SumLens(d) == IF d = <<>> THEN 0 ELSE Len(Head(d).items) + SumLens(Tail(d))

UniqueKeys(d) == \A i, j \in 1..Len(d) : i < j => d[i].key # d[j].key

\* the float vector of the record accepted last
LastVec(log) ==
    LET its == log[Len(log)].g.vec.items
    IN  [i \in 1..Len(its) |-> ToFloat(its[i])]

\* d2 is d with one member more, at the end of one group or as a new group
\* after the others
GrowsByOne(d, d2) ==
    \/ /\ Len(d2) = Len(d)
       /\ \E i \in 1..Len(d) :
             /\ d2[i].key = d[i].key
             /\ Len(d2[i].items) = Len(d[i].items) + 1
             /\ SubSeq(d2[i].items, 1, Len(d[i].items)) = d[i].items
             /\ \A j \in 1..Len(d) : j # i => d2[j] = d[j]
    \/ /\ Len(d2) = Len(d) + 1
       /\ SubSeq(d2, 1, Len(d)) = d
       /\ Len(d2[Len(d2)].items) = 1

\* the member that d2 has more than d
NewMember(d, d2) ==
    IF Len(d2) > Len(d) THEN d2[Len(d2)].items[1]
    ELSE LET i == CHOOSE k \in 1..Len(d) : Len(d2[k].items) > Len(d[k].items)
         IN  d2[i].items[Len(d2[i].items)]

\* C16: the accepted count is the number of accepted records, the number of
\* members over all exact-hash groups and the number of members over all
\* buckets, and no two groups (buckets) have the same key; a step that
\* accepts a record adds one to the count, one member (the record's id and
\* file) to one exact-hash group and one member (the record's id, file and
\* raw vector) to one bucket, and nothing else; any other step leaves the
\* count and both indices as they are.
C16_Accounting ==
    /\ [](/\ total = Len(accepted)
          /\ SumLens(exact_index) = total
          /\ SumLens(sig_buckets) = total
          /\ UniqueKeys(exact_index) /\ UniqueKeys(sig_buckets))
    /\ [][ IF Len(accepted') = Len(accepted) + 1
           THEN LET c == accepted'[Len(accepted')] IN
                /\ total' = total + 1
                /\ GrowsByOne(exact_index, exact_index')
                /\ NewMember(exact_index, exact_index') = <<c.g.id, c.src>>
                /\ GrowsByOne(sig_buckets, sig_buckets')
                /\ LET e == NewMember(sig_buckets, sig_buckets') IN
                      /\ e.gid = c.g.id /\ e.src = c.src
                      /\ e.v_raw = LastVec(accepted')
           ELSE UNCHANGED <<total, exact_index, sig_buckets, accepted>>
         ]_vars

C16_Witness ==
    /\ pc = "report_exact" /\ total = 3
    /\ Len(exact_index) = 2 /\ Len(sig_buckets) = 2
    /\ \E i \in 1..Len(exact_index) : Len(exact_index[i].items) = 2

\* C17: every step leaves both indices unchanged or appends one member at
\* the end of one group in each index, all other members staying as and
\* where they are.
C17_AppendOnly ==
    [][ \/ (exact_index' = exact_index /\ sig_buckets' = sig_buckets)
        \/ (GrowsByOne(exact_index, exact_index')
              /\ GrowsByOne(sig_buckets, sig_buckets')) ]_vars

C17_Witness ==
    /\ pc = "ingest" /\ total = 3
    /\ Len(sig_buckets) = 2
    /\ \E b \in 1..Len(sig_buckets) :
          /\ Len(sig_buckets[b].items) = 2
          /\ sig_buckets[b].items[1] # sig_buckets[b].items[2]

\* C18: no exception leaves the scan; a pair with an all-zero vector has inner
\* product 0 and a divisor that is not 0 (similarity 0), and once the scan is
\* over no compared pair with an all-zero vector has been emitted.
C18_ZeroVectorSafe ==
    /\ ~(pc = "crashed" /\ bi >= 1)
    /\ \A p \in ScanPairs :
          (IsZeroVec(Left(p).v_raw) \/ IsZeroVec(Right(p).v_raw)) =>
              /\ IntDot(Left(p).v_raw, Right(p).v_raw) = 0
              /\ ~cos_raises(Left(p).v_raw, Right(p).v_raw)
              /\ (pc = "done" /\ Compared(p)) => ~Emitted(p)

C18_Witness ==
    /\ pc = "done"
    /\ \E p, q \in ScanPairs :
          /\ Compared(p)
          /\ IsZeroVec(Left(p).v_raw) /\ IsZeroVec(Right(p).v_raw)
          /\ Left(p).gid # Right(p).gid
          /\ \E i \in 1..Len(exact_index) :
                {Member(Left(p)), Member(Right(p))}
                    \subseteq Range(exact_index[i].items)
          /\ Compared(q)
          /\ IsZeroVec(Left(q).v_raw) /\ ~IsZeroVec(Right(q).v_raw)

\* C19: every signature has N_PROJ bits, bit k being 1 exactly when the
\* inner product of the raw vector and hyperplane k is at least 0 (1 when it
\* is 0); an all-zero vector has the signature of N_PROJ ones.
C19_SignatureTies ==
    \A b \in 1..Len(sig_buckets) :
        /\ Len(sig_buckets[b].key) = N_PROJ
        /\ Len(R) = N_PROJ
        /\ \A e \in Range(sig_buckets[b].items) :
              /\ \A k \in 1..N_PROJ :
                    /\ sig_buckets[b].key[k] \in {0, 1}
                    /\ sig_buckets[b].key[k] = 1 <=> IntDot(e.v_raw, R[k]) >= 0
              /\ IsZeroVec(e.v_raw) =>
                    sig_buckets[b].key = [k \in 1..N_PROJ |-> 1]

C19_Witness ==
    /\ Len(sig_buckets) >= 2
    /\ \E b \in 1..Len(sig_buckets) :
          \E e1, e2 \in Range(sig_buckets[b].items) :
              /\ IsZeroVec(e1.v_raw)
              /\ ~IsZeroVec(e2.v_raw)
              /\ \E k \in 1..N_PROJ : IntDot(e2.v_raw, R[k]) = 0

\* C20: two accepted records with equal raw vectors are in the same bucket,
\* whatever their places in the input; so are the members of one exact
\* cluster whose raw vectors are equal.
C20_SignatureDeterminism ==
    \A b1, b2 \in 1..Len(sig_buckets) :
        \A e1 \in Range(sig_buckets[b1].items) :
            \A e2 \in Range(sig_buckets[b2].items) :
                KeyEq(e1.v_raw, e2.v_raw) => b1 = b2

C20_Witness ==
    /\ pc = "done"
    /\ Len(sig_buckets) = 2
    /\ \E b \in 1..Len(sig_buckets) :
          /\ Len(sig_buckets[b].items) = 2
          /\ sig_buckets[b].items[1].gid # sig_buckets[b].items[2].gid
          /\ sig_buckets[b].items[1].v_raw = sig_buckets[b].items[2].v_raw
          /\ ~IsZeroVec(sig_buckets[b].items[1].v_raw)
          /\ \E i \in 1..Len(exact_index) : Len(exact_index[i].items) = 2

====
